---------------------------- MODULE Spec2Model ----------------------------
(***************************************************************************)
(* The DataAcademy teacher dashboard (src/app/dashboard.py) as a state     *)
(* machine over the four tables teacher, student, course, enrollment, and  *)
(* the data generator (src/scripts/generate_data.py) that writes the CSV   *)
(* files those tables are loaded from.                                     *)
(*                                                                         *)
(* Text is a sequence of one-character strings, a date is a day number,    *)
(* SQL NULL is the value Null.  A database row is a record, a table is a   *)
(* set of rows.  The storage is taken to answer every statement: the only  *)
(* failures of a statement are the constraint violations it computes.      *)
(***************************************************************************)
EXTENDS Integers, Sequences, FiniteSets, TLC

VARIABLES
    teacher,            \* table teacher
    course,             \* table course
    student,            \* table student
    enrollment,         \* table enrollment
    student_id_seq,     \* next value of the sequence behind student.id
    enrollment_id_seq,  \* next value of the sequence behind enrollment.id
    today,              \* CURRENT_DATE / date.today()
    session_state,      \* st.session_state: the add-student form's widget keys
    page,               \* what the last script run rendered
    before,             \* the database as the last script run found it
    seed,               \* the seed generate_data.py passes to both generators
    rng,                \* state of the random module and of Faker's generator
    main,               \* generate_data.py: position and locals of main()
    written             \* the CSV files each finished generator run left

vars == <<teacher, course, student, enrollment, student_id_seq,
          enrollment_id_seq, today, session_state, page, before,
          seed, rng, main, written>>

\* the generator's part of the state
generator == <<seed, rng, main, written>>

\* the dashboard's part of the state
dashboard == <<teacher, course, student, enrollment, student_id_seq,
               enrollment_id_seq, today, session_state, page, before>>

\* no generator process is running and none has run
NotRunning ==
    [pc |-> "exited", teachers |-> <<>>, students |-> <<>>,
     courses |-> <<>>, enrollments |-> <<>>]

GeneratorNotRun ==
    /\ seed = 42
    /\ rng = [random |-> 0, fake |-> 0]
    /\ main = NotRunning
    /\ written = <<>>

Database ==
    [teacher |-> teacher, course |-> course, student |-> student,
     enrollment |-> enrollment, student_id_seq |-> student_id_seq,
     enrollment_id_seq |-> enrollment_id_seq]

-----------------------------------------------------------------------------
(* Bounds of the model.                                                    *)

MaxDate == 2            \* dates are the days 1..MaxDate
MaxStudentId == 2       \* the student sequence stops handing out ids here
MaxEnrollmentId == 3    \* the enrollment sequence stops handing out ids here
MaxTermLen == 2         \* longest search term typed
MaxCourses == 11        \* rows of the course table the insights are run on

Dates == 1..MaxDate
Null == "NULL"
Levels == {"Beginner", "Intermediate", "Advanced"}
Statuses == {"active", "completed", "dropped"}
Grades == {"A", "B", "C", "D", "E", "F"}

-----------------------------------------------------------------------------
(* Text helpers.                                                           *)

Min(a, b) == IF a <= b THEN a ELSE b
Max(a, b) == IF a >= b THEN a ELSE b

\* needle in hay, for sequences (Python's `in` on str, SQL position())
Contains(hay, needle) ==
    \E i \in 0..(Len(hay) - Len(needle)) :
        \A j \in 1..Len(needle) : hay[i + j] = needle[j]

SeqRange(s) == {s[i] : i \in 1..Len(s)}

\* every way to list the elements of a finite set
Perms(S) ==
    {q \in [1..Cardinality(S) -> S] :
        \A i, j \in 1..Cardinality(S) : i # j => q[i] # q[j]}

\* every listing of S in the order of rank (a function on S); elements of
\* equal rank come in either order
RECURSIVE InRankOrder(_, _)
InRankOrder(S, rank) ==
    IF S = {} THEN {<<>>}
    ELSE UNION {{<<x>> \o q : q \in InRankOrder(S \ {x}, rank)} :
                   x \in {x \in S : \A y \in S : rank[x] <= rank[y]}}

\* the characters of the model's texts, in code order
Alphabet ==
    <<" ", "%", "@", "A", "B", "E", "L", "\\", "_", "a", "b", "e", "i", "k",
      "l", "o", "x">>

CharRank(c) == CHOOSE i \in 1..Len(Alphabet) : Alphabet[i] = c

\* a <= b in the order ORDER BY sorts text by
RECURSIVE TextLeq(_, _)
TextLeq(a, b) ==
    IF a = <<>> THEN TRUE
    ELSE IF b = <<>> THEN FALSE
    ELSE IF Head(a) = Head(b) THEN TextLeq(Tail(a), Tail(b))
    ELSE CharRank(Head(a)) < CharRank(Head(b))

-----------------------------------------------------------------------------
(* The storage layer as the statements of dashboard.py use it.             *)

\* the statement texts, word by word; SQLAlchemy puts the statement into
\* the text of the exception it raises
InsertStudentSQL ==
    <<"INSERT", "INTO", "student", "(", "first_name", ",", "last_name", ",",
      "email", ",", "registration_date", ")", "VALUES", "(", ":fn", ",",
      ":ln", ",", ":em", ",", ":reg_date", ")", "RETURNING", "id", ";">>

InsertEnrollmentSQL ==
    <<"INSERT", "INTO", "enrollment", "(", "student_id", ",", "course_id",
      ",", "enrollment_date", ",", "status", ")", "VALUES", "(", ":sid",
      ",", ":cid", ",", "CURRENT_DATE", ",", "'active'", ")", ";">>

DuplicateKeyText ==
    <<"duplicate", "key", "value", "violates", "unique", "constraint">>

\* str(e) of the exception run_exec lets through for a unique violation
UniqueViolation(constraint, sql) ==
    DuplicateKeyText \o <<constraint>> \o <<"[SQL:">> \o sql \o <<"]">>

\* INSERT INTO student ... RETURNING id, in its own transaction (run_exec).
\* The id comes from the sequence, which moves on whether or not the row is
\* kept; the primary key is checked before the email key.
InsertStudent(students, seq, fn, ln, em, reg_date) ==
    LET row == [id |-> seq, first_name |-> fn, last_name |-> ln,
                email |-> em, registration_date |-> reg_date]
    IN  IF \E s \in students : s.id = seq
        THEN [ok |-> FALSE, student |-> students, seq |-> seq + 1, id |-> 0,
              error |-> UniqueViolation("student_pkey", InsertStudentSQL)]
        ELSE IF \E s \in students : s.email = em
        THEN [ok |-> FALSE, student |-> students, seq |-> seq + 1, id |-> 0,
              error |-> UniqueViolation("student_email_key", InsertStudentSQL)]
        ELSE [ok |-> TRUE, student |-> students \cup {row}, seq |-> seq + 1,
              id |-> seq, error |-> <<>>]

\* INSERT INTO enrollment (student_id, course_id, enrollment_date, status)
\* VALUES (:sid, :cid, CURRENT_DATE, 'active'), in its own transaction.
InsertEnrollment_IdsSwapped(enrollments, seq, sid, cid, now) ==
    LET row == [id |-> seq, student_id |-> cid, course_id |-> sid,
                enrollment_date |-> now, status |-> "active",
                final_grade |-> Null]
    IN  IF \E e \in enrollments : e.id = seq
        THEN [ok |-> FALSE, enrollment |-> enrollments, seq |-> seq + 1,
              error |-> UniqueViolation("enrollment_pkey", InsertEnrollmentSQL)]
        ELSE [ok |-> TRUE, enrollment |-> enrollments \cup {row},
              seq |-> seq + 1, error |-> <<>>]

InsertEnrollment(enrollments, seq, sid, cid, now) ==
    LET row == [id |-> seq, student_id |-> sid, course_id |-> cid,
                enrollment_date |-> now, status |-> "active",
                final_grade |-> Null]
    IN  IF \E e \in enrollments : e.id = seq
        THEN [ok |-> FALSE, enrollment |-> enrollments, seq |-> seq + 1,
              error |-> UniqueViolation("enrollment_pkey", InsertEnrollmentSQL)]
        ELSE [ok |-> TRUE, enrollment |-> enrollments \cup {row},
              seq |-> seq + 1, error |-> <<>>]

-----------------------------------------------------------------------------
(* Tab 3, Manage Students: the add-student form and its submit handler.    *)

\* course_options: label "title (#id)" -> id, one entry per course row
CourseLabel(c) == <<c.title, c.id>>

course_options(courses) ==
    [l \in {CourseLabel(c) : c \in courses} |->
        (CHOOSE c \in courses : CourseLabel(c) = l).id]

EmptyForm(now) ==
    [first_name_input |-> <<>>, last_name_input |-> <<>>,
     email_input |-> <<>>, reg_date_input |-> now, courses_input |-> <<>>]

\* the loop over selected_courses_labels: one run_exec per label, in the
\* order of selection, left at the first statement that raises
RECURSIVE EnrollSelected(_, _, _, _, _, _)
EnrollSelected_FirstOnly(labels, options, enrollments, seq, sid, now) ==
    IF labels = <<>>
    THEN [ok |-> TRUE, enrollment |-> enrollments, seq |-> seq, error |-> <<>>]
    ELSE InsertEnrollment(enrollments, seq, sid, options[Head(labels)], now)

EnrollSelected(labels, options, enrollments, seq, sid, now) ==
    IF labels = <<>>
    THEN [ok |-> TRUE, enrollment |-> enrollments, seq |-> seq, error |-> <<>>]
    ELSE LET r == InsertEnrollment(enrollments, seq, sid,
                                   options[Head(labels)], now)
         IN  IF r.ok
             THEN EnrollSelected(Tail(labels), options, r.enrollment, r.seq,
                                 sid, now)
             ELSE r

\* the except branch: which st.error the text of the exception selects
IsDuplicateEmailMessage_KeyNameOnly(m) ==
    /\ Contains(m, DuplicateKeyText)
    /\ Contains(m, <<"student_email_key">>)

IsDuplicateEmailMessage(m) ==
    /\ Contains(m, DuplicateKeyText)
    /\ \/ Contains(m, <<"student_email_key">>)
       \/ Contains(m, <<"email">>)

ErrorKind(m) ==
    IF IsDuplicateEmailMessage(m) THEN "duplicate_email" ELSE "write_error"

\* `not first_name or not last_name or not email`
MissingRequired_EmailOnly(first_name, last_name, email) ==
    email = <<>>

MissingRequired(first_name, last_name, email) ==
    first_name = <<>> \/ last_name = <<>> \/ email = <<>>

NoMessage == [kind |-> "none", new_student_id |-> 0, enrolled |-> 0]

\* "Create student and enroll" pressed with the form holding these values
SubmitCreate(first_name, last_name, email, registration_date, labels) ==
    /\ session_state' =
           [first_name_input |-> first_name, last_name_input |-> last_name,
            email_input |-> email, reg_date_input |-> registration_date,
            courses_input |-> labels]
    /\ before' = Database
    /\ UNCHANGED generator
    /\ student_id_seq <= MaxStudentId
    /\ enrollment_id_seq + Len(labels) <= MaxEnrollmentId + 1
    /\ IF MissingRequired(first_name, last_name, email)
       THEN /\ page' = [kind |-> "validation_error", new_student_id |-> 0,
                        enrolled |-> 0]
            /\ UNCHANGED <<student, enrollment, student_id_seq,
                           enrollment_id_seq>>
       ELSE LET s == InsertStudent(student, student_id_seq, first_name,
                                   last_name, email, registration_date)
                e == EnrollSelected(labels, course_options(course),
                                    enrollment, enrollment_id_seq, s.id,
                                    today)
            IN  /\ student' = s.student
                /\ student_id_seq' = s.seq
                /\ IF ~s.ok
                   THEN /\ page' = [kind |-> ErrorKind(s.error),
                                    new_student_id |-> 0, enrolled |-> 0]
                        /\ UNCHANGED <<enrollment, enrollment_id_seq>>
                   ELSE /\ enrollment' = e.enrollment
                        /\ enrollment_id_seq' = e.seq
                        /\ page' = IF e.ok
                                   THEN [kind |-> "success",
                                         new_student_id |-> s.id,
                                         enrolled |-> Len(labels)]
                                   ELSE [kind |-> ErrorKind(e.error),
                                         new_student_id |-> 0,
                                         enrolled |-> 0]
    /\ UNCHANGED <<teacher, course, today>>

\* "Clear form" pressed: the callback runs, then the script with nothing
\* submitted
ClearForm ==
    /\ session_state' = EmptyForm(today)
    /\ page' = NoMessage
    /\ before' = Database
    /\ UNCHANGED generator
    /\ UNCHANGED <<teacher, course, student, enrollment, student_id_seq,
                   enrollment_id_seq, today>>

-----------------------------------------------------------------------------
(* The database the dashboard starts from: bulk-loaded rows with explicit  *)
(* ids (scripts/generate_data.py writes the id columns), so a sequence may *)
(* or may not have been moved past the loaded ids.                         *)

FirstNames == {<<>>, <<"A", "l">>}
LastNames == {<<>>, <<"E", "k">>}
Emails == {<<>>, <<"a", "@", "x">>, <<"b", "@", "x">>}

LoadedTeachers ==
    {[id |-> 1, first_name |-> <<"A", "l">>, last_name |-> <<"E", "k">>]}

LoadedCourses ==
    {[id |-> 1, title |-> "SQL", level |-> "Beginner", start_date |-> 1,
      end_date |-> 2, teacher_id |-> 1],
     [id |-> 2, title |-> "Flask", level |-> "Advanced", start_date |-> 2,
      end_date |-> 3, teacher_id |-> 1]}

LoadedStudents ==
    {[id |-> 1, first_name |-> <<"A", "l">>, last_name |-> <<"E", "k">>,
      email |-> <<"a", "@", "x">>, registration_date |-> 1]}

LoadedEnrollments ==
    {[id |-> 1, student_id |-> 1, course_id |-> 1, enrollment_date |-> 1,
      status |-> "completed", final_grade |-> "A"],
     [id |-> 2, student_id |-> 1, course_id |-> 2, enrollment_date |-> 1,
      status |-> "dropped", final_grade |-> Null]}

MaxId(rows) == IF rows = {} THEN 0 ELSE CHOOSE m \in {r.id : r \in rows} :
                                            \A r \in rows : r.id <= m

\* sequences of pairwise distinct elements of S (a multiselect's value)
Selections(S) ==
    {q \in UNION {[1..n -> S] : n \in 0..Cardinality(S)} :
        \A i, j \in 1..Len(q) : i # j => q[i] # q[j]}

Init ==
    /\ teacher = LoadedTeachers
    /\ course = LoadedCourses
    /\ student \in SUBSET LoadedStudents
    /\ enrollment \in {E \in SUBSET LoadedEnrollments :
                         \A e \in E : \E s \in student : s.id = e.student_id}
    /\ student_id_seq \in 1..(MaxId(student) + 1)
    /\ enrollment_id_seq \in 1..(MaxId(enrollment) + 1)
    /\ today = 2
    /\ session_state = EmptyForm(today)
    /\ page = NoMessage
    /\ before = Database
    /\ GeneratorNotRun

Submit ==
    \E first_name \in FirstNames, last_name \in LastNames, email \in Emails,
       registration_date \in {today - 1, today},
       labels \in Selections(DOMAIN course_options(course)) :
        SubmitCreate(first_name, last_name, email, registration_date, labels)

Next ==
    \/ Submit
    \/ ClearForm

Spec == Init /\ [][Next]_vars

-----------------------------------------------------------------------------
(* The Record Writer's contract, read off the state after a submission:    *)
(* session_state holds what was submitted, before the database the handler *)
(* started from, page the message it showed.                               *)

Submitted == page.kind # "none"

NewStudents == student \ before.student
NewEnrollments == enrollment \ before.enrollment

RequestedCourseIds ==
    {course_options(before.course)[l] :
        l \in SeqRange(session_state.courses_input)}

NothingWritten ==
    /\ student = before.student
    /\ enrollment = before.enrollment

EmailTaken ==
    \E s \in before.student : s.email = session_state.email_input

FieldMissing ==
    \/ session_state.first_name_input = <<>>
    \/ session_state.last_name_input = <<>>
    \/ session_state.email_input = <<>>

\* C1: a submission leaves either no row at all, or the new student with
\* every enrollment requested in that submission.
C1_AllOrNothing ==
    Submitted =>
        \/ NothingWritten
        \/ /\ Cardinality(NewStudents) = 1
           /\ \A e \in NewEnrollments : \E s \in NewStudents : e.student_id = s.id
           /\ {e.course_id : e \in NewEnrollments} = RequestedCourseIds
           /\ Cardinality(NewEnrollments) = Len(session_state.courses_input)

\* C2 as stated: whenever the submitted email belongs to a stored student,
\* the duplicate-email error is shown and nothing is written.
C2_Original ==
    (Submitted /\ EmailTaken) =>
        (page.kind = "duplicate_email" /\ NothingWritten)

\* C2 as amended: a submission with first and last name filled in and an
\* email that belongs to a stored student shows the duplicate-email error
\* and writes neither a student nor an enrollment.
C2_DuplicateEmailRejected ==
    (/\ Submitted
     /\ EmailTaken
     /\ session_state.first_name_input # <<>>
     /\ session_state.last_name_input # <<>>) =>
        (page.kind = "duplicate_email" /\ NothingWritten)

C2_Witness ==
    /\ page.kind = "duplicate_email"
    /\ EmailTaken
    /\ Len(session_state.courses_input) > 0
    /\ ~(\E s \in before.student : s.id = before.student_id_seq)

\* C3: a submission with first name, last name or email empty shows the
\* validation error and writes nothing, whatever courses were selected.
C3_ValidationRejects ==
    (Submitted /\ FieldMissing) =>
        /\ page.kind = "validation_error"
        /\ NothingWritten
        /\ student_id_seq = before.student_id_seq
        /\ enrollment_id_seq = before.enrollment_id_seq

C3_Witness ==
    /\ page.kind = "validation_error"
    /\ session_state.first_name_input = <<>>
    /\ session_state.email_input # <<>>
    /\ Len(session_state.courses_input) > 0

\* C4: a submission that went through adds exactly one student row, with
\* the submitted fields and the generated id, and exactly one enrollment
\* per selected course, each for that student, dated today, active and
\* without a grade; nothing else is added or changed.
C4_SuccessfulSubmissionRows ==
    page.kind = "success" =>
        /\ NewStudents =
               {[id |-> before.student_id_seq,
                 first_name |-> session_state.first_name_input,
                 last_name |-> session_state.last_name_input,
                 email |-> session_state.email_input,
                 registration_date |-> session_state.reg_date_input]}
        /\ page.new_student_id = before.student_id_seq
        /\ before.student \subseteq student
        /\ before.enrollment \subseteq enrollment
        /\ Cardinality(NewEnrollments) = Len(session_state.courses_input)
        /\ {e.course_id : e \in NewEnrollments} = RequestedCourseIds
        /\ \A e \in NewEnrollments :
               /\ e.student_id = before.student_id_seq
               /\ e.enrollment_date = today
               /\ e.status = "active"
               /\ e.final_grade = Null
        /\ teacher = before.teacher
        /\ course = before.course

C4_Witness ==
    /\ page.kind = "success"
    /\ Len(session_state.courses_input) = 2
    /\ session_state.reg_date_input # today
    /\ before.student # {}

\* C5: the duplicate-email error is shown exactly when the student insert
\* fails on the email key; every other failure shows the generic error.
StudentInsertFailsOnEmailKey ==
    /\ ~FieldMissing
    /\ ~(\E s \in before.student : s.id = before.student_id_seq)
    /\ EmailTaken

C5_DuplicateEmailExactly ==
    Submitted =>
        (page.kind = "duplicate_email" <=> StudentInsertFailsOnEmailKey)

\* C6: every enrollment references a stored student and a stored course,
\* student emails are pairwise distinct, no enrollment that is not
\* completed has a grade, and no stored student or enrollment row is
\* changed or removed by a script run.
C6_DatabaseInvariants ==
    /\ \A e \in enrollment :
           /\ \E s \in student : s.id = e.student_id
           /\ \E c \in course : c.id = e.course_id
           /\ e.status # "completed" => e.final_grade = Null
    /\ \A s, t \in student : s.email = t.email => s = t
    /\ before.student \subseteq student
    /\ before.enrollment \subseteq enrollment

C6_Witness ==
    /\ page.kind = "write_error"
    /\ Cardinality(NewStudents) = 1
    /\ Cardinality(NewEnrollments) = 1
    /\ before.student # {}

-----------------------------------------------------------------------------
(* Tab 1, Course Overview: the filters, the WHERE clause built from them   *)
(* and the course report query.                                            *)

\* first_name || ' ' || last_name
FullName(r) == r.first_name \o <<" ">> \o r.last_name

\* SELECT id, first_name || ' ' || last_name AS name FROM teacher
\* ORDER BY name: any listing in name order (equal names in either order)
teachers_dfs(teachers) ==
    {q \in Perms({[id |-> t.id, name |-> FullName(t)] : t \in teachers}) :
        \A i \in 1..(Len(q) - 1) : TextLeq(q[i].name, q[i + 1].name)}

AllTeachers == <<"A", "l", "l">>

teacher_options(teachers_df) ==
    <<AllTeachers>> \o [i \in 1..Len(teachers_df) |-> teachers_df[i].name]

\* teachers_df.loc[teachers_df["name"] == teacher_choice, "id"].iloc[0]
TeacherIdByName(teachers_df, teacher_choice) ==
    LET hits == {i \in 1..Len(teachers_df) :
                    teachers_df[i].name = teacher_choice}
        first == CHOOSE i \in hits : \A j \in hits : i <= j
    IN  teachers_df[first].id

\* the filters list and the bound parameters
BuildFilters(teachers_df, teacher_choice, level_filter, start_filter, end_filter) ==
    [filters |->
         (IF teacher_choice # AllTeachers THEN {"teacher_id"} ELSE {})
         \cup (IF level_filter # {} THEN {"levels"} ELSE {})
         \cup {"start_date", "end_date"},
     teacher_id |-> IF teacher_choice # AllTeachers
                    THEN TeacherIdByName(teachers_df, teacher_choice)
                    ELSE 0,
     levels |-> level_filter,
     start_date |-> start_filter,
     end_date |-> end_filter]

\* where_clause: the filters joined by AND
Where(c, w) ==
    /\ "teacher_id" \in w.filters => c.teacher_id = w.teacher_id
    /\ "levels" \in w.filters => c.level \in w.levels
    /\ "start_date" \in w.filters => c.start_date >= w.start_date
    /\ "end_date" \in w.filters => c.start_date <= w.end_date

\* FROM course c JOIN teacher t ON t.id = c.teacher_id
\* LEFT JOIN enrollment e ON e.course_id = c.id; e is {} in the row a
\* course without enrollments is kept with
Joined(courses, teachers, enrollments) ==
    UNION {LET es == {e \in enrollments : e.course_id = c.id}
           IN  {[c |-> c, t |-> t, e |-> x] :
                    t \in {t \in teachers : t.id = c.teacher_id},
                    x \in IF es = {} THEN {{}} ELSE {{e} : e \in es}}
           : c \in courses}

CountStatus(group, status) ==
    Cardinality({j \in group : \E e \in j.e : e.status = status})

\* the rows of query_courses_stats before ORDER BY
CourseStatsRows_InnerJoin(courses, teachers, enrollments, w) ==
    LET kept == {j \in Joined(courses, teachers, enrollments) :
                    Where(j.c, w) /\ j.e # {}}
        key(j) == <<j.c.id, j.c.title, j.c.level, j.c.start_date,
                    j.c.end_date, FullName(j.t)>>
    IN  {LET group == {j \in kept : key(j) = k}
         IN  [id |-> k[1], title |-> k[2], level |-> k[3],
              start_date |-> k[4], end_date |-> k[5], teacher_name |-> k[6],
              total_enrollments |-> Cardinality({j \in group : j.e # {}}),
              active_count |-> CountStatus(group, "active"),
              completed_count |-> CountStatus(group, "completed"),
              dropped_count |-> CountStatus(group, "dropped")]
         : k \in {key(j) : j \in kept}}

CourseStatsRows(courses, teachers, enrollments, w) ==
    LET kept == {j \in Joined(courses, teachers, enrollments) : Where(j.c, w)}
        key(j) == <<j.c.id, j.c.title, j.c.level, j.c.start_date,
                    j.c.end_date, FullName(j.t)>>
    IN  {LET group == {j \in kept : key(j) = k}
         IN  [id |-> k[1], title |-> k[2], level |-> k[3],
              start_date |-> k[4], end_date |-> k[5], teacher_name |-> k[6],
              total_enrollments |-> Cardinality({j \in group : j.e # {}}),
              active_count |-> CountStatus(group, "active"),
              completed_count |-> CountStatus(group, "completed"),
              dropped_count |-> CountStatus(group, "dropped")]
         : k \in {key(j) : j \in kept}}

\* ORDER BY c.start_date: any listing in start_date order
course_stats_dfs(rows) ==
    {q \in Perms(rows) :
        \A i \in 1..(Len(q) - 1) : q[i].start_date <= q[i + 1].start_date}

\* one run of the Course Overview tab: choice is the position picked in
\* the Teacher selectbox (1 is "All")
CourseOverview(teachers_df, choice, level_filter, start_filter, end_filter, course_stats_df) ==
    LET teacher_choice == teacher_options(teachers_df)[choice]
        w == BuildFilters(teachers_df, teacher_choice, level_filter,
                          start_filter, end_filter)
    IN  /\ course_stats_df \in
               course_stats_dfs(CourseStatsRows(course, teacher, enrollment, w))
        /\ page' = [kind |-> "course_stats", teachers_df |-> teachers_df,
                    choice |-> choice, level_filter |-> level_filter,
                    start_filter |-> start_filter,
                    end_filter |-> end_filter, where |-> w,
                    course_stats_df |-> course_stats_df]
        /\ before' = Database
        /\ UNCHANGED generator
    /\ UNCHANGED generator
        /\ UNCHANGED <<teacher, course, student, enrollment, student_id_seq,
                       enrollment_id_seq, today, session_state>>

MinStartDate(courses) ==
    CHOOSE d \in {c.start_date : c \in courses} :
        \A c \in courses : d <= c.start_date

MaxStartDate(courses) ==
    CHOOSE d \in {c.start_date : c \in courses} :
        \A c \in courses : d >= c.start_date

\* the report is a function of the database and the filters: one run per
\* database and filter set shows all there is to see
ViewCourses ==
    /\ page = NoMessage
    /\ \E teachers_df \in teachers_dfs(teacher),
          choice \in 1..(Cardinality(teacher) + 1),
          level_filter \in SUBSET Levels,
          start_filter \in MinStartDate(course)..MaxStartDate(course),
          end_filter \in MinStartDate(course)..MaxStartDate(course) :
           \E course_stats_df \in
                  course_stats_dfs(CourseStatsRows(course, teacher, enrollment,
                      BuildFilters(teachers_df,
                                   teacher_options(teachers_df)[choice],
                                   level_filter, start_filter, end_filter))) :
               CourseOverview(teachers_df, choice, level_filter, start_filter,
                              end_filter, course_stats_df)

\* the databases the report is run on: two teachers who may share a name,
\* two courses, some enrollments of one loaded student
ReportTeachers ==
    {{[id |-> 1, first_name |-> <<"A", "l">>, last_name |-> <<"E", "k">>],
      [id |-> 2, first_name |-> f, last_name |-> l]} :
        f \in {<<"A", "l">>, <<"B", "o">>}, l \in {<<"E", "k">>}}

ReportCourses ==
    {{[id |-> 1, title |-> "SQL", level |-> l1, start_date |-> d1,
       end_date |-> d1 + 1, teacher_id |-> t1],
      [id |-> 2, title |-> "Flask", level |-> l2, start_date |-> d2,
       end_date |-> d2 + 1, teacher_id |-> t2]} :
        l1 \in Levels, l2 \in Levels, d1 \in Dates, d2 \in Dates,
        t1 \in {1, 2}, t2 \in {1, 2}}

ReportEnrollments ==
    {[id |-> 1, student_id |-> 1, course_id |-> 1, enrollment_date |-> 1,
      status |-> "completed", final_grade |-> "A"],
     [id |-> 2, student_id |-> 1, course_id |-> 1, enrollment_date |-> 1,
      status |-> "active", final_grade |-> Null]}

InitReport ==
    /\ teacher \in ReportTeachers
    /\ course \in ReportCourses
    /\ student = LoadedStudents
    /\ enrollment \in SUBSET ReportEnrollments
    /\ student_id_seq = 2
    /\ enrollment_id_seq = 3
    /\ today = 2
    /\ session_state = EmptyForm(today)
    /\ page = NoMessage
    /\ before = Database
    /\ GeneratorNotRun

NextReport ==
    \/ ViewCourses

SpecReport == InitReport /\ [][NextReport]_vars

\* C7: the report lists exactly the courses that pass every active filter
\* (the teacher picked in the selectbox, the selected levels, the inclusive
\* start_date range), each once, in start_date order; a reversed range
\* gives no row.
PickedTeacherId == page.teachers_df[page.choice - 1].id

PassesFilters(c) ==
    /\ page.choice # 1 => c.teacher_id = PickedTeacherId
    /\ page.level_filter # {} => c.level \in page.level_filter
    /\ page.start_filter <= c.start_date
    /\ c.start_date <= page.end_filter

C7_CourseReportExact ==
    page.kind = "course_stats" =>
        LET df == page.course_stats_df
        IN  /\ {df[i].id : i \in 1..Len(df)} =
                   {c.id : c \in {c \in course : PassesFilters(c)}}
            /\ \A i, j \in 1..Len(df) : i # j => df[i].id # df[j].id
            /\ \A i \in 1..(Len(df) - 1) :
                   df[i].start_date <= df[i + 1].start_date
            /\ page.start_filter > page.end_filter => df = <<>>

-----------------------------------------------------------------------------
(* Tab 2, Student Search: the free-text search over student.               *)

SearchLimit == 50

\* lower case of a character, as ILIKE folds both sides
LowerChar(c) ==
    CASE c = "A" -> "a"
      [] c = "B" -> "b"
      [] c = "E" -> "e"
      [] c = "L" -> "l"
      [] OTHER -> c

Lower(t) == [i \in 1..Len(t) |-> LowerChar(t[i])]

\* text LIKE pattern: % is any run of characters, _ any one character,
\* a backslash takes the next character literally
RECURSIVE Like(_, _)
Like(t, p) ==
    IF p = <<>> THEN t = <<>>
    ELSE IF Head(p) = "%"
    THEN Like(t, Tail(p)) \/ (t # <<>> /\ Like(Tail(t), p))
    ELSE IF Head(p) = "_"
    THEN t # <<>> /\ Like(Tail(t), Tail(p))
    ELSE IF Head(p) = "\\" /\ Len(p) >= 2
    THEN t # <<>> /\ Head(t) = p[2] /\ Like(Tail(t), Tail(Tail(p)))
    ELSE t # <<>> /\ Head(t) = Head(p) /\ Like(Tail(t), Tail(p))

\* text ILIKE '%' || :term || '%'
ILikeTerm_CaseSensitive(t, term) ==
    Like(t, <<"%">> \o term \o <<"%">>)

ILikeTerm(t, term) ==
    Like(Lower(t), Lower(<<"%">> \o term \o <<"%">>))

\* the WHERE clause of query_students
MatchesSearch(s, term) ==
    \/ ILikeTerm(s.first_name, term)
    \/ ILikeTerm(s.last_name, term)
    \/ ILikeTerm(s.email, term)
    \/ ILikeTerm(FullName(s), term)

\* ORDER BY last_name, first_name LIMIT 50: the first rows of any listing
\* in that order
students_founds(students, term) ==
    {SubSeq(q, 1, Min(Len(q), SearchLimit)) :
        q \in {q \in Perms({s \in students : MatchesSearch(s, term)}) :
                 \A i \in 1..(Len(q) - 1) :
                     \/ /\ q[i].last_name # q[i + 1].last_name
                        /\ TextLeq(q[i].last_name, q[i + 1].last_name)
                     \/ /\ q[i].last_name = q[i + 1].last_name
                        /\ TextLeq(q[i].first_name, q[i + 1].first_name)}}

\* one run of the Student Search tab with search_term typed
StudentSearch(search_term, students_found) ==
    /\ IF search_term # <<>>
       THEN /\ students_found \in students_founds(student, search_term)
            /\ page' = [kind |-> "students_found", search_term |-> search_term,
                        students_found |-> students_found]
       ELSE /\ students_found = <<>>
            /\ page' = [kind |-> "no_search", search_term |-> search_term,
                        students_found |-> <<>>]
    /\ before' = Database
    /\ UNCHANGED generator
    /\ UNCHANGED <<teacher, course, student, enrollment, student_id_seq,
                   enrollment_id_seq, today, session_state>>

TermChars == {"a", "L", " ", "_", "%", "\\"}

Terms == UNION {[1..n -> TermChars] : n \in 0..MaxTermLen}

\* as the report, the search is a function of the database and the term
SearchStudents ==
    /\ page = NoMessage
    /\ \E search_term \in Terms :
           \E students_found \in
                  IF search_term # <<>>
                  THEN students_founds(student, search_term)
                  ELSE {<<>>} :
               StudentSearch(search_term, students_found)

\* the student tables searched: up to two students, emails distinct
SearchFirstNames == {<<"A", "l">>, <<"B", "o">>, <<"a", "_">>}
SearchLastNames == {<<"E", "k">>, <<"L", "i">>}
SearchEmails == {<<"a", "@", "x">>, <<"b", "@", "x">>}

SearchRows(i) ==
    {[id |-> i, first_name |-> f, last_name |-> l, email |-> e,
      registration_date |-> 1] :
        f \in SearchFirstNames, l \in SearchLastNames, e \in SearchEmails}

SearchTables ==
    {{}} \cup {{s} : s \in SearchRows(1)}
         \cup UNION {{{s, t} : t \in {t \in SearchRows(2) :
                                            t.email # s.email}} :
                         s \in SearchRows(1)}

InitSearch ==
    /\ teacher = LoadedTeachers
    /\ course = LoadedCourses
    /\ student \in SearchTables
    /\ enrollment = {}
    /\ student_id_seq = 3
    /\ enrollment_id_seq = 1
    /\ today = 2
    /\ session_state = EmptyForm(today)
    /\ page = NoMessage
    /\ before = Database
    /\ GeneratorNotRun

NextSearch ==
    \/ SearchStudents

SpecSearch == InitSearch /\ [][NextSearch]_vars

\* the term, in any letter case, is a substring of the text
InText(term, t) == Contains(Lower(t), Lower(term))

NameHits == {s \in student : InText(page.search_term, FullName(s))}

Searched == page.kind = "students_found"

\* C9 as stated: a search for a term that is, in any letter case, a
\* substring of exactly one student's full name returns that student's
\* record and nothing else.
C9_Original ==
    (Searched /\ Cardinality(NameHits) = 1) =>
        \E s \in NameHits : page.students_found = <<s>>

\* C9 as amended: a search for a non-empty term without the LIKE
\* characters % _ \ that is, in any letter case, a substring of exactly one
\* student's full name and of no other student's email returns that
\* student's record and nothing else.
C9_UniqueNameMatch ==
    (/\ Searched
     /\ page.search_term # <<>>
     /\ SeqRange(page.search_term) \cap {"%", "_", "\\"} = {}
     /\ Cardinality(NameHits) = 1
     /\ \A s \in student \ NameHits : ~InText(page.search_term, s.email)) =>
        \E s \in NameHits : page.students_found = <<s>>

C9_Witness ==
    /\ page.kind = "students_found"
    /\ Cardinality(student) = 2
    /\ Cardinality(NameHits) = 1
    /\ Len(page.students_found) = 1
    /\ page.search_term = <<"a", "L">>

-----------------------------------------------------------------------------
(* Tab 4, SQL Insights: the four example queries, the result sample and    *)
(* the chart chosen for each.                                              *)

PreviewRows == 10

QueryNames ==
    {"Students per course", "Enrollment status distribution",
     "Active enrollments per level", "Courses per teacher"}

\* the rows of EXAMPLE_QUERIES[query_name], before ORDER BY
QueryRows(query_name) ==
    CASE query_name = "Students per course" ->
            {[id |-> c.id, title |-> c.title,
              student_count |->
                  Cardinality({e \in enrollment : e.course_id = c.id})] :
                c \in course}
      [] query_name = "Enrollment status distribution" ->
            {[status |-> st,
              enrollment_count |->
                  Cardinality({e \in enrollment : e.status = st})] :
                st \in {e.status : e \in enrollment}}
      [] query_name = "Active enrollments per level" ->
            LET active == {<<e, c>> \in enrollment \X course :
                              c.id = e.course_id /\ e.status = "active"}
            IN  {[level |-> l,
                  active_enrollments |->
                      Cardinality({j \in active : j[2].level = l})] :
                    l \in {j[2].level : j \in active}}
      [] query_name = "Courses per teacher" ->
            {[id |-> t.id, teacher_name |-> FullName(t),
              course_count |->
                  Cardinality({c \in course : c.teacher_id = t.id})] :
                t \in teacher}

\* r comes strictly before q under the query's ORDER BY
Before(query_name, r, q) ==
    CASE query_name = "Students per course" ->
            \/ r.student_count > q.student_count
            \/ /\ r.student_count = q.student_count
               /\ r.title # q.title
               /\ TextLeq(r.title, q.title)
      [] query_name = "Enrollment status distribution" ->
            r.enrollment_count > q.enrollment_count
      [] query_name = "Active enrollments per level" ->
            r.active_enrollments > q.active_enrollments
      [] query_name = "Courses per teacher" ->
            \/ r.course_count > q.course_count
            \/ /\ r.course_count = q.course_count
               /\ r.teacher_name # q.teacher_name
               /\ TextLeq(r.teacher_name, q.teacher_name)

\* df = run_query(sql_text): any listing of the rows in the ORDER BY order
dfs(query_name) ==
    LET rows == QueryRows(query_name)
    IN  InRankOrder(rows,
            [r \in rows |->
                Cardinality({q \in rows : Before(query_name, q, r)})])

\* df.head(10)
Head10_Five(df) == SubSeq(df, 1, Min(Len(df), 5))

Head10(df) == SubSeq(df, 1, Min(Len(df), PreviewRows))

\* the alt.Chart(df).mark_bar().encode(x=..., y=...) of each branch
NoSort == "ascending"

InsightChart_AllSorted(query_name) ==
    CASE query_name = "Students per course" ->
            [mark |-> "bar",
             x |-> [field |-> "student_count", type |-> "Q", sort |-> NoSort],
             y |-> [field |-> "title", type |-> "N", sort |-> "-x"]]
      [] query_name = "Enrollment status distribution" ->
            [mark |-> "bar",
             x |-> [field |-> "status", type |-> "N", sort |-> "-y"],
             y |-> [field |-> "enrollment_count", type |-> "Q",
                    sort |-> NoSort]]
      [] query_name = "Active enrollments per level" ->
            [mark |-> "bar",
             x |-> [field |-> "level", type |-> "N", sort |-> "-y"],
             y |-> [field |-> "active_enrollments", type |-> "Q",
                    sort |-> NoSort]]
      [] query_name = "Courses per teacher" ->
            [mark |-> "bar",
             x |-> [field |-> "course_count", type |-> "Q", sort |-> NoSort],
             y |-> [field |-> "teacher_name", type |-> "N", sort |-> "-x"]]

InsightChart(query_name) ==
    CASE query_name = "Students per course" ->
            [mark |-> "bar",
             x |-> [field |-> "student_count", type |-> "Q", sort |-> NoSort],
             y |-> [field |-> "title", type |-> "N", sort |-> "-x"]]
      [] query_name = "Enrollment status distribution" ->
            [mark |-> "bar",
             x |-> [field |-> "status", type |-> "N", sort |-> NoSort],
             y |-> [field |-> "enrollment_count", type |-> "Q",
                    sort |-> NoSort]]
      [] query_name = "Active enrollments per level" ->
            [mark |-> "bar",
             x |-> [field |-> "level", type |-> "N", sort |-> NoSort],
             y |-> [field |-> "active_enrollments", type |-> "Q",
                    sort |-> NoSort]]
      [] query_name = "Courses per teacher" ->
            [mark |-> "bar",
             x |-> [field |-> "course_count", type |-> "Q", sort |-> NoSort],
             y |-> [field |-> "teacher_name", type |-> "N", sort |-> "-x"]]

\* one run of the SQL Insights tab with query_name picked
SqlInsights(query_name, df) ==
    /\ df \in dfs(query_name)
    /\ IF df = <<>>
       THEN page' = [kind |-> "insight_empty", query_name |-> query_name,
                     df |-> df]
       ELSE page' = [kind |-> "insight", query_name |-> query_name,
                     df |-> df, sample |-> Head10(df),
                     chart |-> InsightChart(query_name)]
    /\ before' = Database
    /\ UNCHANGED generator
    /\ UNCHANGED <<teacher, course, student, enrollment, student_id_seq,
                   enrollment_id_seq, today, session_state>>

\* as the report, an insight is a function of the database and the query
ExploreQuery ==
    /\ page = NoMessage
    /\ \E query_name \in QueryNames :
           \E df \in dfs(query_name) : SqlInsights(query_name, df)

\* the databases the insights are run on
InsightTeachers ==
    {[id |-> 1, first_name |-> <<"A", "l">>, last_name |-> <<"E", "k">>],
     [id |-> 2, first_name |-> <<"B", "o">>, last_name |-> <<"L", "i">>]}

InsightCourse(i) ==
    [id |-> i, title |-> <<Alphabet[Len(Alphabet) - i]>>,
     level |-> IF i % 3 = 0 THEN "Beginner"
               ELSE IF i % 3 = 1 THEN "Intermediate" ELSE "Advanced",
     start_date |-> 1, end_date |-> 2, teacher_id |-> 1 + (i % 2)]

InsightEnrollments ==
    {[id |-> 1, student_id |-> 1, course_id |-> 1, enrollment_date |-> 1,
      status |-> "completed", final_grade |-> "A"],
     [id |-> 2, student_id |-> 1, course_id |-> 2, enrollment_date |-> 1,
      status |-> "active", final_grade |-> Null],
     [id |-> 3, student_id |-> 1, course_id |-> 3, enrollment_date |-> 1,
      status |-> "active", final_grade |-> Null],
     [id |-> 4, student_id |-> 1, course_id |-> 3, enrollment_date |-> 2,
      status |-> "dropped", final_grade |-> Null],
     [id |-> 5, student_id |-> 1, course_id |-> 2, enrollment_date |-> 2,
      status |-> "dropped", final_grade |-> Null]}

InitInsights ==
    /\ teacher = InsightTeachers
    /\ \E n \in 1..MaxCourses :
           /\ course = {InsightCourse(i) : i \in 1..n}
           /\ enrollment \in
                  SUBSET {e \in InsightEnrollments : e.course_id <= n}
    /\ student = LoadedStudents
    /\ student_id_seq = 2
    /\ enrollment_id_seq = 6
    /\ today = 2
    /\ session_state = EmptyForm(today)
    /\ page = NoMessage
    /\ before = Database
    /\ GeneratorNotRun

NextInsights ==
    \/ ExploreQuery

SpecInsights == InitInsights /\ [][NextInsights]_vars

\* the column a query groups by (its bars) and the column it counts into
CategoryColumn(query_name) ==
    CASE query_name = "Students per course" -> "title"
      [] query_name = "Enrollment status distribution" -> "status"
      [] query_name = "Active enrollments per level" -> "level"
      [] query_name = "Courses per teacher" -> "teacher_name"

ValueColumn(query_name) ==
    CASE query_name = "Students per course" -> "student_count"
      [] query_name = "Enrollment status distribution" -> "enrollment_count"
      [] query_name = "Active enrollments per level" -> "active_enrollments"
      [] query_name = "Courses per teacher" -> "course_count"

\* bars run along x, one per category on y, in descending order of value
HorizontalSortedBar(chart, query_name) ==
    /\ chart.mark = "bar"
    /\ chart.x = [field |-> ValueColumn(query_name), type |-> "Q",
                  sort |-> NoSort]
    /\ chart.y = [field |-> CategoryColumn(query_name), type |-> "N",
                  sort |-> "-x"]

\* bars run along y, one per category on x, in the default category order
VerticalUnsortedBar(chart, query_name) ==
    /\ chart.mark = "bar"
    /\ chart.x = [field |-> CategoryColumn(query_name), type |-> "N",
                  sort |-> NoSort]
    /\ chart.y = [field |-> ValueColumn(query_name), type |-> "Q",
                  sort |-> NoSort]

SampleIsFirstTen ==
    /\ Len(page.sample) = Min(Len(page.df), 10)
    /\ \A i \in 1..Len(page.sample) : page.sample[i] = page.df[i]

\* C10 as stated: every one of the four queries is drawn as a horizontal
\* bar chart keyed by its category column and sorted descending by its
\* value column, beside the first 10 rows of the result.
C10_Original ==
    page.kind = "insight" =>
        /\ HorizontalSortedBar(page.chart, page.query_name)
        /\ SampleIsFirstTen

\* C10 as amended: a query with a non-empty result is shown beside the
\* first 10 rows of the result; students-per-course and courses-per-teacher
\* are drawn as horizontal bar charts keyed by the category column and
\* sorted descending by the value column, status distribution and
\* active-enrollments-per-level as vertical bar charts keyed by the
\* category column with no sort by value.
C10_ChartPerQuery ==
    page.kind = "insight" =>
        /\ page.query_name \in {"Students per course", "Courses per teacher"}
               => HorizontalSortedBar(page.chart, page.query_name)
        /\ page.query_name \in {"Enrollment status distribution",
                                "Active enrollments per level"}
               => VerticalUnsortedBar(page.chart, page.query_name)
        /\ SampleIsFirstTen

C10_Witness ==
    /\ page.kind = "insight"
    /\ page.query_name = "Students per course"
    /\ Len(page.df) > 10
    /\ Len(page.sample) = 10
    /\ page.df[1].student_count = 2

-----------------------------------------------------------------------------
(* scripts/generate_data.py: the synthetic data generator.                 *)
(*                                                                         *)
(* A date is its proleptic Gregorian ordinal (date.toordinal), a timedelta *)
(* a number of days, an ISO date string the triple <<year, month, day>>.   *)
(* The weights of random.choices are written in hundredths.                *)

MaxSeed == 48           \* the seeds 1..MaxSeed are run; the script's is 42
Runs == 2               \* how often the script is run with one seed
NUM_TEACHERS == 2
NUM_STUDENTS == 2
NUM_COURSES == 4
MIN_ENROLLMENTS_PER_STUDENT == 1
MAX_ENROLLMENTS_PER_STUDENT == 4

None == "None"

IsLeap(y) == (y % 4 = 0 /\ y % 100 # 0) \/ y % 400 = 0

DaysInMonth(y, m) ==
    IF m = 2 THEN (IF IsLeap(y) THEN 29 ELSE 28)
    ELSE IF m \in {4, 6, 9, 11} THEN 30 ELSE 31

DaysBeforeYear(y) ==
    (y - 1) * 365 + (y - 1) \div 4 - (y - 1) \div 100 + (y - 1) \div 400

RECURSIVE DaysBeforeMonth(_, _)
DaysBeforeMonth(y, m) ==
    IF m = 1 THEN 0 ELSE DaysBeforeMonth(y, m - 1) + DaysInMonth(y, m - 1)

\* date(year, month, day)
date(y, m, d) == DaysBeforeYear(y) + DaysBeforeMonth(y, m) + d

\* d.isoformat(): "YYYY-MM-DD"
isoformat(n) ==
    LET y == CHOOSE yy \in (n \div 366)..(n \div 365 + 1) :
                 DaysBeforeYear(yy) < n /\ n <= DaysBeforeYear(yy + 1)
        k == n - DaysBeforeYear(y)
        m == CHOOSE mm \in 1..12 :
                 /\ DaysBeforeMonth(y, mm) < k
                 /\ k <= DaysBeforeMonth(y, mm) + DaysInMonth(y, mm)
    IN  <<y, m, k - DaysBeforeMonth(y, m)>>

\* date.fromisoformat(text)
fromisoformat(t) == date(t[1], t[2], t[3])

\* The generators behind the random module and behind Faker: the next
\* state is a function of the state, the state after seed(a) a function of
\* a.  A small linear congruential generator stands for the Mersenne
\* Twister; a draw returns its value and the state it leaves.
NextState(s) == (s * 884 + 1) % 8191

States == 0..8190

\* random._randbelow(n): a number in 0..n-1
randbelow(s, n) ==
    LET t == NextState(s)
    IN  [value |-> (t * n) \div 8191, state |-> t]

\* random.randint(a, b)
randint(s, a, b) ==
    LET r == randbelow(s, b - a + 1)
    IN  [value |-> a + r.value, state |-> r.state]

\* random.choice(seq)
choice(s, seq) ==
    LET r == randbelow(s, Len(seq))
    IN  [value |-> seq[r.value + 1], state |-> r.state]

RECURSIVE accumulate(_, _)
accumulate(weights, i) ==
    IF i = 0 THEN 0 ELSE accumulate(weights, i - 1) + weights[i]

\* bisect.bisect(a, x, 0, hi) on the sorted a
bisect(a, x, hi) == Cardinality({i \in 1..hi : a[i] <= x})

\* random.choices(population, weights=weights, k=1)[0]
choices(s, population, weights) ==
    LET cum_weights == [i \in 1..Len(weights) |-> accumulate(weights, i)]
        total == cum_weights[Len(weights)]
        t == NextState(s)
        x == (t * total) \div 8191     \* floor(random() * total)
    IN  [value |-> population[bisect(cum_weights, x, Len(population) - 1) + 1],
         state |-> t]

\* random.sample(population, k) for a population too large for the pool
\* variant, as the 120 courses are: draw positions, drawing again when the
\* position was selected before
RECURSIVE SampleDraw(_, _, _)
SampleDraw_NoRejection(s, n, selected) == randbelow(s, n)

SampleDraw(s, n, selected) ==
    LET r == randbelow(s, n)
    IN  IF r.value \in selected THEN SampleDraw(r.state, n, selected) ELSE r

RECURSIVE SampleLoop(_, _, _, _, _)
SampleLoop(s, population, k, selected, result) ==
    IF Len(result) = k THEN [value |-> result, state |-> s]
    ELSE LET r == SampleDraw(s, Len(population), selected)
         IN  SampleLoop(r.state, population, k, selected \cup {r.value},
                        Append(result, population[r.value + 1]))

sample(s, population, k) == SampleLoop(s, population, k, {}, <<>>)

\* what Faker draws from
FirstNamePool == << <<"A", "l">>, <<"B", "o">>, <<"E", "l", "l", "a">> >>
LastNamePool == << <<"E", "k">>, <<"L", "i">> >>
SentencePool == <<"Bio one.", "Bio two.">>
ParagraphPool == <<"About one.", "About two.">>

fake_first_name(s) == choice(s, FirstNamePool)
fake_last_name(s) == choice(s, LastNamePool)
fake_sentence(s) == choice(s, SentencePool)
fake_paragraph(s) == choice(s, ParagraphPool)

\* random_date_between(start, end)
random_date_between_PastEnd(s, start, end) ==
    LET delta == end - start
        r == randint(s, 0, delta + 1)
    IN  [value |-> start + r.value, state |-> r.state]

random_date_between(s, start, end) ==
    LET delta == end - start
        r == randint(s, 0, delta)
    IN  [value |-> start + r.value, state |-> r.state]

\* generate_teachers(): r is the pair of generator states
RECURSIVE teachers_loop(_, _, _)
teachers_loop(i, teachers, r) ==
    IF i > NUM_TEACHERS THEN [value |-> teachers, state |-> r]
    ELSE LET first_name == fake_first_name(r.fake)
             last_name == fake_last_name(first_name.state)
             email == Lower(first_name.value) \o <<".">>
                          \o Lower(last_name.value)
                          \o <<ToString(i), "@example.edu">>
             bio == fake_sentence(last_name.state)
         IN  teachers_loop(i + 1,
                 Append(teachers,
                        [id |-> i, first_name |-> first_name.value,
                         last_name |-> last_name.value, email |-> email,
                         bio |-> bio.value]),
                 [r EXCEPT !.fake = bio.state])

generate_teachers(r) == teachers_loop(1, <<>>, r)

\* generate_students()
RECURSIVE students_loop(_, _, _)
students_loop(i, students, r) ==
    IF i > NUM_STUDENTS THEN [value |-> students, state |-> r]
    ELSE LET first_name == fake_first_name(r.fake)
             last_name == fake_last_name(first_name.state)
             email == Lower(first_name.value) \o <<".">>
                          \o Lower(last_name.value)
                          \o <<ToString(i), "@student.example.com">>
             registration_date ==
                 random_date_between(r.random, date(2021, 1, 1),
                                     date(2025, 1, 1))
         IN  students_loop(i + 1,
                 Append(students,
                        [id |-> i, first_name |-> first_name.value,
                         last_name |-> last_name.value, email |-> email,
                         registration_date |->
                             isoformat(registration_date.value)]),
                 [random |-> registration_date.state,
                  fake |-> last_name.state])

generate_students(r) == students_loop(1, <<>>, r)

titles_samples ==
    <<"Python for Data Analysis", "Introduction to SQL",
      "Web Development with Flask", "Machine Learning Basics",
      "Data Visualization with Python", "Linux for Developers",
      "Docker & Containers", "Cloud Fundamentals",
      "Object-Oriented Programming", "Data Engineering Pipelines">>

\* one pass of the loop of generate_courses
course_row_AnyTeacherId(i, teachers, r) ==
    LET a_teacher == randint(r.random, 1, Len(teachers) + 1)
        level == choice(a_teacher.state,
                        <<"Beginner", "Intermediate", "Advanced">>)
        base_title == choice(level.state, titles_samples)
        description == fake_paragraph(r.fake)
        credits == choice(base_title.state, <<3, 4, 5>>)
        start_date == random_date_between(credits.state, date(2023, 1, 1),
                                          date(2025, 12, 31))
        duration_days == randint(start_date.state, 30, 90)
        end_date == start_date.value + duration_days.value
    IN  [value |->
             [id |-> i, title |-> <<base_title.value, " #", ToString(i)>>,
              description |-> description.value, level |-> level.value,
              credits |-> credits.value,
              start_date |-> isoformat(start_date.value),
              end_date |-> isoformat(end_date),
              teacher_id |-> a_teacher.value],
         state |-> [random |-> duration_days.state,
                    fake |-> description.state]]

course_row(i, teachers, r) ==
    LET a_teacher == choice(r.random, teachers)
        level == choice(a_teacher.state,
                        <<"Beginner", "Intermediate", "Advanced">>)
        base_title == choice(level.state, titles_samples)
        description == fake_paragraph(r.fake)
        credits == choice(base_title.state, <<3, 4, 5>>)
        start_date == random_date_between(credits.state, date(2023, 1, 1),
                                          date(2025, 12, 31))
        duration_days == randint(start_date.state, 30, 90)
        end_date == start_date.value + duration_days.value
    IN  [value |->
             [id |-> i, title |-> <<base_title.value, " #", ToString(i)>>,
              description |-> description.value, level |-> level.value,
              credits |-> credits.value,
              start_date |-> isoformat(start_date.value),
              end_date |-> isoformat(end_date),
              teacher_id |-> a_teacher.value.id],
         state |-> [random |-> duration_days.state,
                    fake |-> description.state]]

\* generate_courses(teachers)
RECURSIVE courses_loop(_, _, _, _)
courses_loop(i, teachers, courses, r) ==
    IF i > NUM_COURSES THEN [value |-> courses, state |-> r]
    ELSE LET c == course_row(i, teachers, r)
         IN  courses_loop(i + 1, teachers, Append(courses, c.value), c.state)

generate_courses(teachers, r) == courses_loop(1, teachers, <<>>, r)

\* the reference date of choose_status_and_grade
reference_today == date(2025, 1, 15)

\* choose_status_and_grade(course_start, course_end, enrollment_date),
\* called with dates
choose_status_and_grade_GradeAlways(s, course_start, course_end, enrollment_date) ==
    LET status ==
            IF course_end < reference_today
            THEN choices(s, <<"completed", "active", "dropped">>,
                         <<75, 5, 20>>)
            ELSE IF course_start > reference_today
            THEN choices(s, <<"active", "completed", "dropped">>,
                         <<70, 0, 30>>)
            ELSE choices(s, <<"active", "completed", "dropped">>,
                         <<60, 20, 20>>)
        grade == choices(status.state, <<"A", "B", "C", "D", "E", "F">>,
                         <<25, 30, 25, 10, 5, 5>>)
    IN  [status |-> status.value, grade |-> grade.value,
         state |-> grade.state]

choose_status_and_grade(s, course_start, course_end, enrollment_date) ==
    LET status ==
            IF course_end < reference_today
            THEN choices(s, <<"completed", "active", "dropped">>,
                         <<75, 5, 20>>)
            ELSE IF course_start > reference_today
            THEN choices(s, <<"active", "completed", "dropped">>,
                         <<70, 0, 30>>)
            ELSE choices(s, <<"active", "completed", "dropped">>,
                         <<60, 20, 20>>)
        grade ==
            IF status.value = "completed"
            THEN choices(status.state, <<"A", "B", "C", "D", "E", "F">>,
                         <<25, 30, 25, 10, 5, 5>>)
            ELSE [value |-> None, state |-> status.state]
    IN  [status |-> status.value, grade |-> grade.value,
         state |-> grade.state]

\* the window the enrollment date of a course is drawn from
enroll_start(course_start) == course_start - 30
enroll_end(course_start, course_end) == Min(course_start + 20, course_end)

\* one pass of the inner loop of generate_enrollments
enrollment_row(enrollment_id, a_student, a_course, s) ==
    LET course_start == fromisoformat(a_course.start_date)
        course_end == fromisoformat(a_course.end_date)
        enrollment_date ==
            random_date_between(s, enroll_start(course_start),
                                enroll_end(course_start, course_end))
        sg == choose_status_and_grade(enrollment_date.state, course_start,
                                      course_end, enrollment_date.value)
    IN  [value |->
             [id |-> enrollment_id, student_id |-> a_student.id,
              course_id |-> a_course.id,
              enrollment_date |-> isoformat(enrollment_date.value),
              status |-> sg.status,
              final_grade |-> IF sg.grade = None THEN "" ELSE sg.grade],
         state |-> sg.state]

\* for course in chosen_courses
RECURSIVE chosen_loop(_, _, _, _, _)
chosen_loop(a_student, chosen_courses, enrollments, enrollment_id, s) ==
    IF chosen_courses = <<>>
    THEN [value |-> enrollments, enrollment_id |-> enrollment_id,
          state |-> s]
    ELSE LET e == enrollment_row(enrollment_id, a_student,
                                 Head(chosen_courses), s)
         IN  chosen_loop(a_student, Tail(chosen_courses),
                         Append(enrollments, e.value), enrollment_id + 1,
                         e.state)

\* for student in students
RECURSIVE enrollments_loop(_, _, _, _, _)
enrollments_loop(students, courses, enrollments, enrollment_id, s) ==
    IF students = <<>> THEN [value |-> enrollments, state |-> s]
    ELSE LET num_enrollments ==
                 randint(s, MIN_ENROLLMENTS_PER_STUDENT,
                         MAX_ENROLLMENTS_PER_STUDENT)
             chosen_courses ==
                 sample(num_enrollments.state, courses,
                        num_enrollments.value)
             e == chosen_loop(Head(students), chosen_courses.value,
                              enrollments, enrollment_id,
                              chosen_courses.state)
         IN  enrollments_loop(Tail(students), courses, e.value,
                              e.enrollment_id, e.state)

\* generate_enrollments(students, courses)
generate_enrollments(students, courses, s) ==
    enrollments_loop(students, courses, <<>>, 1, s)

\* write_csv(path, rows, fieldnames): the header, then each row's fields
write_csv(rows, fieldnames) ==
    <<fieldnames>> \o
        [i \in 1..Len(rows) |->
            [j \in 1..Len(fieldnames) |-> rows[i][fieldnames[j]]]]

\* a start of the script: the module body seeds both generators
\* what an unseeded generator starts from
Entropy == {1, 2}

StartScript_FakerUnseeded ==
    /\ main.pc = "exited"
    /\ Len(written) < Runs
    /\ \E e \in Entropy : rng' = [random |-> seed, fake |-> e]
    /\ main' = [NotRunning EXCEPT !.pc = "teachers"]
    /\ UNCHANGED <<seed, written>>
    /\ UNCHANGED dashboard

StartScript ==
    /\ main.pc = "exited"
    /\ Len(written) < Runs
    /\ rng' = [random |-> seed, fake |-> seed]
    /\ main' = [NotRunning EXCEPT !.pc = "teachers"]
    /\ UNCHANGED <<seed, written>>
    /\ UNCHANGED dashboard

\* teachers = generate_teachers()
GenerateTeachers ==
    /\ main.pc = "teachers"
    /\ LET r == generate_teachers(rng)
       IN  /\ main' = [main EXCEPT !.teachers = r.value, !.pc = "students"]
           /\ rng' = r.state
    /\ UNCHANGED <<seed, written>>
    /\ UNCHANGED dashboard

\* students = generate_students()
GenerateStudents ==
    /\ main.pc = "students"
    /\ LET r == generate_students(rng)
       IN  /\ main' = [main EXCEPT !.students = r.value, !.pc = "courses"]
           /\ rng' = r.state
    /\ UNCHANGED <<seed, written>>
    /\ UNCHANGED dashboard

\* courses = generate_courses(teachers)
GenerateCourses ==
    /\ main.pc = "courses"
    /\ LET r == generate_courses(main.teachers, rng)
       IN  /\ main' = [main EXCEPT !.courses = r.value,
                                   !.pc = "enrollments"]
           /\ rng' = r.state
    /\ UNCHANGED <<seed, written>>
    /\ UNCHANGED dashboard

\* enrollments = generate_enrollments(students, courses)
GenerateEnrollments ==
    /\ main.pc = "enrollments"
    /\ LET r == generate_enrollments(main.students, main.courses,
                                     rng.random)
       IN  /\ main' = [main EXCEPT !.enrollments = r.value, !.pc = "write"]
           /\ rng' = [rng EXCEPT !.random = r.state]
    /\ UNCHANGED <<seed, written>>
    /\ UNCHANGED dashboard

\* the four write_csv calls; the process ends
WriteFiles ==
    /\ main.pc = "write"
    /\ written' = Append(written,
           [teachers |->
                write_csv(main.teachers,
                    <<"id", "first_name", "last_name", "email", "bio">>),
            students |->
                write_csv(main.students,
                    <<"id", "first_name", "last_name", "email",
                      "registration_date">>),
            courses |->
                write_csv(main.courses,
                    <<"id", "title", "description", "level", "credits",
                      "start_date", "end_date", "teacher_id">>),
            enrollments |->
                write_csv(main.enrollments,
                    <<"id", "student_id", "course_id", "enrollment_date",
                      "status", "final_grade">>)])
    /\ main' = NotRunning
    /\ UNCHANGED <<seed, rng>>
    /\ UNCHANGED dashboard

InitGenerator ==
    /\ seed \in 1..MaxSeed
    /\ rng = [random |-> 0, fake |-> 0]
    /\ main = NotRunning
    /\ written = <<>>
    /\ teacher = LoadedTeachers
    /\ course = LoadedCourses
    /\ student = {}
    /\ enrollment = {}
    /\ student_id_seq = 1
    /\ enrollment_id_seq = 1
    /\ today = 2
    /\ session_state = EmptyForm(today)
    /\ page = NoMessage
    /\ before = Database

NextGenerator ==
    \/ StartScript
    \/ GenerateTeachers
    \/ GenerateStudents
    \/ GenerateCourses
    \/ GenerateEnrollments
    \/ WriteFiles

SpecGenerator == InitGenerator /\ [][NextGenerator]_vars

-----------------------------------------------------------------------------
(* The generated datasets.                                                 *)

Ids(rows) == {rows[i].id : i \in DOMAIN rows}

Rows(rows) == {rows[i] : i \in DOMAIN rows}

\* the course an enrollment row names
CourseOf(e) == CHOOSE c \in Rows(main.courses) : c.id = e.course_id

\* a teacher list as generate_teachers returns it, and every pair of
\* generator states with that random state
SomeTeachers == generate_teachers([random |-> 0, fake |-> 0]).value

\* from every generator state the loop of generate_courses yields a course
\* of a generated teacher
EveryCourseRowHasTeacher ==
    \A s \in States :
        course_row(1, SomeTeachers, [random |-> s, fake |-> s]).value.teacher_id
            \in Ids(SomeTeachers)

\* C11: in every generator run every enrollment's student_id is the id of
\* a generated student and its course_id the id of a generated course,
\* every course's teacher_id is the id of a generated teacher, and
\* enrollment ids are unique; from every generator state the loop of
\* generate_courses yields a course of a generated teacher.
C11_GeneratedReferences ==
    /\ \A e \in Rows(main.enrollments) :
           /\ e.student_id \in Ids(main.students)
           /\ e.course_id \in Ids(main.courses)
    /\ \A c \in Rows(main.courses) : c.teacher_id \in Ids(main.teachers)
    /\ \A i, j \in DOMAIN main.enrollments :
           i # j => main.enrollments[i].id # main.enrollments[j].id
    /\ EveryCourseRowHasTeacher

C11_Witness ==
    /\ main.pc = "write"
    /\ Len(main.enrollments) = 2 * MAX_ENROLLMENTS_PER_STUDENT
    /\ {c.teacher_id : c \in Rows(main.courses)} = Ids(main.teachers)
    /\ Ids(main.enrollments) = 1..Len(main.enrollments)

\* courses ending before, running on and starting after the reference
\* date, as pairs of start and end date
CourseWindows ==
    {<<reference_today - 31, reference_today - 1>>,
     <<reference_today - 30, reference_today>>,
     <<reference_today, reference_today + 90>>,
     <<reference_today + 1, reference_today + 31>>,
     <<reference_today + 300, reference_today + 390>>}

\* from every generator state choose_status_and_grade returns a grade of
\* A..F with completed and no grade otherwise, and never completed for a
\* course that starts after the reference date
EveryStatusAndGrade ==
    \A s \in States : \A w \in CourseWindows :
        LET r == choose_status_and_grade(s, w[1], w[2], w[1])
        IN  /\ r.status \in Statuses
            /\ r.status = "completed" => r.grade \in Grades
            /\ r.status # "completed" => r.grade = None
            /\ w[1] > reference_today => r.status # "completed"

\* C12: for every generated enrollment final_grade is empty unless status
\* is completed, and is one of A..F when status is completed; an
\* enrollment in a course that starts after 2025-01-15 is never completed.
C12_GradeOnlyWhenCompleted ==
    /\ \A e \in Rows(main.enrollments) :
           /\ e.status # "completed" => e.final_grade = ""
           /\ e.status = "completed" => e.final_grade \in Grades
           /\ fromisoformat(CourseOf(e).start_date) > date(2025, 1, 15)
                  => e.status # "completed"
    /\ EveryStatusAndGrade

C12_Witness ==
    /\ main.pc = "write"
    /\ \E e \in Rows(main.enrollments) :
           e.status = "completed" /\ e.final_grade \in Grades
    /\ \E e \in Rows(main.enrollments) :
           /\ fromisoformat(CourseOf(e).start_date) > date(2025, 1, 15)
           /\ e.status = "active"
           /\ e.final_grade = ""

\* every course generate_courses can produce: a start date of the overall
\* range and a duration of 30 to 90 days
EveryCourseHasWindow ==
    \A course_start \in date(2023, 1, 1)..date(2025, 12, 31) :
        \A duration_days \in 30..90 :
            LET course_end == course_start + duration_days
            IN  /\ course_end > course_start
                /\ course_start - 30
                       <= Min(course_start + 20, course_end)

\* from every generator state random_date_between returns a date of the
\* inclusive interval it is given
EveryDateBetween ==
    \A s \in States : \A w \in CourseWindows :
        LET r == random_date_between(s, enroll_start(w[1]),
                                     enroll_end(w[1], w[2]))
        IN  /\ w[1] - 30 <= r.value
            /\ r.value <= Min(w[1] + 20, w[2])

\* C13: every generated enrollment's enrollment_date lies in the inclusive
\* interval from 30 days before the course's start_date to
\* min(start_date + 20 days, end_date), and that interval is not empty for
\* any course the generator can produce.
C13_EnrollmentDateInWindow ==
    /\ \A e \in Rows(main.enrollments) :
           LET course_start == fromisoformat(CourseOf(e).start_date)
               course_end == fromisoformat(CourseOf(e).end_date)
               enrollment_date == fromisoformat(e.enrollment_date)
           IN  /\ course_start - 30 <= enrollment_date
               /\ enrollment_date <= Min(course_start + 20, course_end)
    /\ \A c \in Rows(main.courses) :
           LET course_start == fromisoformat(c.start_date)
               course_end == fromisoformat(c.end_date)
           IN  /\ course_end - course_start \in 30..90
               /\ course_start - 30 <= Min(course_start + 20, course_end)
    /\ EveryCourseHasWindow
    /\ EveryDateBetween

C13_Witness ==
    /\ main.pc = "write"
    /\ \E e \in Rows(main.enrollments) :
           fromisoformat(e.enrollment_date)
               = fromisoformat(CourseOf(e).start_date) + 20
    /\ \E e \in Rows(main.enrollments) :
           fromisoformat(e.enrollment_date)
               < fromisoformat(CourseOf(e).start_date) - 20

EnrollmentsOf(a_student) ==
    {i \in DOMAIN main.enrollments :
        main.enrollments[i].student_id = a_student.id}

\* from every generator state the number of courses drawn is 1..4 and
\* random.sample returns that many courses from pairwise distinct positions
EverySampleDistinct ==
    \A s \in States :
        LET num_enrollments ==
                randint(s, MIN_ENROLLMENTS_PER_STUDENT,
                        MAX_ENROLLMENTS_PER_STUDENT)
            chosen_courses ==
                sample(num_enrollments.state,
                       [i \in 1..NUM_COURSES |-> i], num_enrollments.value)
        IN  /\ num_enrollments.value \in 1..4
            /\ Len(chosen_courses.value) = num_enrollments.value
            /\ \A i, j \in DOMAIN chosen_courses.value :
                   i # j => chosen_courses.value[i] # chosen_courses.value[j]

\* C15: the generator gives every student between 1 and 4 enrollments, all
\* in pairwise distinct courses: no (student_id, course_id) pair occurs
\* twice and no student has zero or more than four enrollments.
C15_OneToFourDistinctCourses ==
    /\ main.pc = "write" =>
           \A a_student \in Rows(main.students) :
               Cardinality(EnrollmentsOf(a_student)) \in 1..4
    /\ \A i, j \in DOMAIN main.enrollments :
           i # j =>
               <<main.enrollments[i].student_id,
                 main.enrollments[i].course_id>>
                   # <<main.enrollments[j].student_id,
                       main.enrollments[j].course_id>>
    /\ EverySampleDistinct

C15_Witness ==
    /\ main.pc = "write"
    /\ \E a_student \in Rows(main.students) :
           Cardinality(EnrollmentsOf(a_student)) = 4
    /\ \E a_student \in Rows(main.students) :
           Cardinality(EnrollmentsOf(a_student)) = 1

=============================================================================
